---- MODULE Spec2Model ----
(***************************************************************************)
(* Model of pptx_formatter/main.py: the per-slide LangGraph workflow       *)
(* (analyze -> select -> placement -> render -> compare -> feedback, with  *)
(* a bounded retry cycle) and process_presentation, which runs one         *)
(* workflow per slide of the target presentation on a thread pool, all of  *)
(* them appending to one output presentation under one lock.               *)
(***************************************************************************)
EXTENDS Integers, Sequences, FiniteSets, TLC

\* ------------------------------------------------------------------------
\* Bounds of the model (sizes of the inputs)
\* ------------------------------------------------------------------------
\* A presentation of one slide: shapes of the slide, layouts of the template
MaxShapes == 3
MaxLayouts == 3
\* A presentation of several slides: its slides, the shapes of all its
\* slides together, the layouts of the template
MaxItems == 2
MaxDeckShapes == 1
MaxDeckLayouts == 1
\* placeholders of one slide layout
MaxPlaceholders == 1
\* threads of the executor
MaxWorkers == 2

\* ------------------------------------------------------------------------
\* Program constants
\* ------------------------------------------------------------------------
\* shape_type of a picture (analyze_slide)
PICTURE == 13
\* route_feedback: retry while attempts < 3
MaxAttempts == 3
\* analyze_slide / render_new_slide: first text line and line pitch
FirstLineY == 10
LineStep == 20

\* ------------------------------------------------------------------------
\* Inputs: shapes, slides, presentations, templates
\* ------------------------------------------------------------------------
\* The kinds of source shape: a picture (no text frame), a text box with
\* text, a text box whose text is empty.
ShapeKinds == {"pic", "txt", "empty"}

\* The j-th shape of a slide, of kind k. Its geometry is told apart by j.
SourceShape(k, j) ==
    [shape_type     |-> IF k = "pic" THEN PICTURE ELSE 17,
     has_text_frame |-> k # "pic",
     text           |-> IF k = "txt" THEN "a" ELSE "",
     left |-> j, top |-> 2 * j, width |-> 3, height |-> 1]

SeqsUpTo(S, n) == UNION {[1..m -> S] : m \in 0..n}

\* The slides of at most n shapes, each of a kind in K
SlidesOf(K, n) == {[j \in 1..Len(ks) |-> SourceShape(ks[j], j)] : ks \in SeqsUpTo(K, n)}

RECURSIVE TotalShapes(_)
TotalShapes(t) == IF t = <<>> THEN 0 ELSE Len(Head(t)) + TotalShapes(Tail(t))

\* template.slide_layouts: layout k (0-based) is entry k + 1, the number of
\* placeholders add_slide clones from that layout into a new slide.
TemplatesOf(n) == SeqsUpTo(0..MaxPlaceholders, n)

\* The conversions checked, as (template.slide_layouts, target.slides): a
\* presentation of one slide of any composition, or a presentation of up to
\* MaxItems slides of non-empty text boxes.
Inputs ==
    {<<tp, <<s>>>> : tp \in TemplatesOf(MaxLayouts), s \in SlidesOf(ShapeKinds, MaxShapes)}
    \cup
    {<<tp, t>> : tp \in TemplatesOf(MaxDeckLayouts),
                 t \in {d \in SeqsUpTo(SlidesOf({"txt"}, MaxDeckShapes), MaxItems) :
                          TotalShapes(d) <= MaxDeckShapes}}

VARIABLES
    template,       \* slide_layouts of the template presentation
    target,         \* slides of the target presentation
    max_workers,    \* threads the executor runs (it starts no more than it has work items)
    cpc,            \* position of process_presentation
    futures,        \* number of futures submitted so far
    results,        \* the list `results`
    output,         \* slides of the output presentation
    saved,          \* <<>> or <<slides written by output.save>>
    lock,           \* 0 when free, else the index of the run holding it
    pc,             \* per run: the node (or the point inside it) to execute next
    content_type,   \* state["content_type"]
    tried_layouts,  \* state["tried_layouts"]
    layout_idx,     \* state["layout_idx"]
    attempts,       \* state["attempts"]
    quality_ok,     \* state["quality_ok"]
    feedback,       \* state["feedback"]
    new_slide,      \* state["new_slide"]: position in output, 0 when unset
    orig_img,       \* content of state["orig_img"]
    new_img,        \* content of state["new_img"]
    cs_slide,       \* apply_layout's local new_slide
    cs_shape,       \* apply_layout's loop position in slide.shapes
    future,         \* per run: the future's outcome
    compared        \* per run: history of the comparisons made

vars == <<template, target, max_workers, cpc, futures, results, output, saved,
          lock, pc, content_type, tried_layouts, layout_idx, attempts, quality_ok,
          feedback, new_slide, orig_img, new_img, cs_slide, cs_shape, future,
          compared>>

\* enumerate(target.slides, start=1)
Runs == 1..Len(target)

\* state.get(...) of a key not yet set
None == -1
NoFeedback == <<>>
NoImage == {<<-1, "">>}

\* A future that has no result (yet)
NoResult == [index |-> 0, success |-> FALSE, feedback |-> NoFeedback]

\* ------------------------------------------------------------------------
\* Pure parts of the nodes
\* ------------------------------------------------------------------------
\* draw.text((10, y), text): an image is the set of text lines drawn on the
\* white canvas; drawing an empty string leaves the canvas as it is.
DrawText(img, y, text) == IF text = "" THEN img ELSE img \cup {<<y, text>>}

\* The loop of analyze_slide over slide.shapes, from shape j on.
RECURSIVE AnalyzeLoop(_, _, _, _, _, _)
AnalyzeLoop(shapes, j, text_shapes, has_picture, y, img) ==
    IF j > Len(shapes)
    THEN [text_shapes |-> text_shapes, has_picture |-> has_picture, img |-> img]
    ELSE LET shape == shapes[j]
             pic == has_picture \/ shape.shape_type = PICTURE
         IN  IF shape.has_text_frame
             THEN AnalyzeLoop(shapes, j + 1, text_shapes + 1, pic, y + LineStep,
                              DrawText(img, y, shape.text))
             ELSE AnalyzeLoop(shapes, j + 1, text_shapes, pic, y, img)

\* Variant of Classify: the text threshold is off by one (>= 2 for > 2).
Classify_ge2(text_shapes, has_picture) ==
    IF has_picture THEN "image"
    ELSE IF text_shapes >= 2 THEN "text"
    ELSE "complex"

\* The classification at the end of analyze_slide.
Classify(text_shapes, has_picture) ==
    IF has_picture THEN "image"
    ELSE IF text_shapes > 2 THEN "text"
    ELSE "complex"

\* analyze_slide as a function of the slide: the category and the image.
AnalyzeSlide(shapes) ==
    LET r == AnalyzeLoop(shapes, 1, 0, FALSE, FirstLineY, {})
    IN  [content_type |-> Classify(r.text_shapes, r.has_picture), orig_img |-> r.img]

\* Variant of Preferred: the entries of image and complex are exchanged.
Preferred_exchanged(content) ==
    CASE content = "text" -> 0
      [] content = "image" -> 2
      [] content = "complex" -> 1
      [] OTHER -> 0

\* layout_map.get(content, 0)
Preferred(content) ==
    CASE content = "text" -> 0
      [] content = "image" -> 1
      [] content = "complex" -> 2
      [] OTHER -> 0

\* Variant of SelectLoop: the candidate is not reduced modulo the number of
\* layouts.
RECURSIVE SelectLoop_nomod(_, _, _, _)
SelectLoop_nomod(preferred, tried, n, idx) ==
    IF idx >= n
    THEN [layout_idx |-> 0, tried |-> tried]
    ELSE LET candidate == preferred + idx
         IN  IF candidate \notin tried
             THEN [layout_idx |-> candidate, tried |-> tried \cup {candidate}]
             ELSE SelectLoop_nomod(preferred, tried, n, idx + 1)

\* Variant of SelectLoop: when every layout has been tried, the preferred
\* layout is taken again in place of layout 0.
RECURSIVE SelectLoop_preferred(_, _, _, _)
SelectLoop_preferred(preferred, tried, n, idx) ==
    IF idx >= n
    THEN [layout_idx |-> IF n = 0 THEN 0 ELSE preferred % n, tried |-> tried]
    ELSE LET candidate == (preferred + idx) % n
         IN  IF candidate \notin tried
             THEN [layout_idx |-> candidate, tried |-> tried \cup {candidate}]
             ELSE SelectLoop_preferred(preferred, tried, n, idx + 1)

\* The for/else loop of select_template, from idx on, over n layouts.
RECURSIVE SelectLoop(_, _, _, _)
SelectLoop(preferred, tried, n, idx) ==
    IF idx >= n
    THEN [layout_idx |-> 0, tried |-> tried]
    ELSE LET candidate == (preferred + idx) % n
         IN  IF candidate \notin tried
             THEN [layout_idx |-> candidate, tried |-> tried \cup {candidate}]
             ELSE SelectLoop(preferred, tried, n, idx + 1)

\* select_template as a function of the category, the tried set and the
\* number of layouts.
SelectTemplate(content, tried, n) == SelectLoop(Preferred(content), tried, n, 0)

\* route_content: the placement node of a category.
RouteContent(content) ==
    CASE content = "text" -> "mechanical"
      [] content = "image" -> "ai_place"
      [] content = "complex" -> "hybrid"

PlaceNodes == {"mechanical", "ai_place", "hybrid"}

\* output.slides.add_slide(layout): the new slide holds a clone of each
\* placeholder of the layout, all with an empty text frame.
AddSlide(i, idx) ==
    [owner  |-> i,
     layout |-> idx,
     shapes |-> [p \in 1..template[idx + 1] |->
                   [shape_type |-> 14, has_text_frame |-> TRUE, text |-> "",
                    left |-> 0, top |-> 0, width |-> 0, height |-> 0]]]

\* Variant of AddTextbox: left and top are passed in each other's place.
AddTextbox_swapped(shape) ==
    [shape_type |-> 17, has_text_frame |-> TRUE, text |-> shape.text,
     left |-> shape.top, top |-> shape.left,
     width |-> shape.width, height |-> shape.height]

\* new_slide.shapes.add_textbox(...) and textbox.text_frame.text = shape.text
AddTextbox(shape) ==
    [shape_type |-> 17, has_text_frame |-> TRUE, text |-> shape.text,
     left |-> shape.left, top |-> shape.top,
     width |-> shape.width, height |-> shape.height]

\* The loop of render_new_slide over the new slide's shapes, from shape j on.
RECURSIVE RenderLoop(_, _, _, _)
RenderLoop(shapes, j, y, img) ==
    IF j > Len(shapes) THEN img
    ELSE IF ~shapes[j].has_text_frame THEN RenderLoop(shapes, j + 1, y, img)
    ELSE RenderLoop(shapes, j + 1, y + LineStep, DrawText(img, y, shapes[j].text))

RenderNewSlide(shapes) == RenderLoop(shapes, 1, FirstLineY, {})

\* compare_images: ImageChops.difference(orig, new).getbbox() is None
CompareImages(orig, new) == orig = new

\* Variant of FeedbackMessage: the two values are formatted in the wrong order.
FeedbackMessage_swapped(index, layout) == <<layout, index>>

\* The message of generate_feedback
FeedbackMessage(index, layout) == <<index, layout>>

\* Variant of RouteQuality: the two branches are exchanged.
RouteQuality_inverted(ok) == IF ok THEN "feedback" ELSE "end"

\* route_quality
RouteQuality(ok) == IF ok THEN "end" ELSE "feedback"

\* Variant of RouteFeedback: the bound is tested with <= for <.
RouteFeedback_le(n) == IF n <= MaxAttempts THEN "select" ELSE "end"

\* route_feedback
RouteFeedback(n) == IF n < MaxAttempts THEN "select" ELSE "end"

\* Variant of MarkResult: the feedback of the state is reported as it is.
MarkResult_keep(index, ok, fb) == [index |-> index, success |-> ok, feedback |-> fb]

\* mark_result
MarkResult(index, ok, fb) ==
    [index |-> index, success |-> ok, feedback |-> IF ok THEN NoFeedback ELSE fb]

\* ------------------------------------------------------------------------
\* Initial state: process_presentation up to `lock = Lock()`, and the state
\* dict process_single_slide will build for each slide
\* ------------------------------------------------------------------------
Init ==
    /\ \E in \in Inputs : template = in[1] /\ target = in[2]
    /\ max_workers \in {w \in 1..MaxWorkers : w = 1 \/ w <= Len(target)}
    /\ cpc = "with"
    /\ futures = 0
    /\ results = <<>>
    /\ output = <<>>
    /\ saved = <<>>
    /\ lock = 0
    /\ pc = [i \in Runs |-> "queued"]
    /\ content_type = [i \in Runs |-> "text"]
    /\ tried_layouts = [i \in Runs |-> {}]
    /\ layout_idx = [i \in Runs |-> None]
    /\ attempts = [i \in Runs |-> 0]
    /\ quality_ok = [i \in Runs |-> FALSE]
    /\ feedback = [i \in Runs |-> NoFeedback]
    /\ new_slide = [i \in Runs |-> 0]
    /\ orig_img = [i \in Runs |-> NoImage]
    /\ new_img = [i \in Runs |-> NoImage]
    /\ cs_slide = [i \in Runs |-> 0]
    /\ cs_shape = [i \in Runs |-> 0]
    /\ future = [i \in Runs |-> [state |-> "pending", result |-> NoResult]]
    /\ compared = [i \in Runs |-> <<>>]

inputs == <<template, target, max_workers>>
coordinator == <<cpc, futures, results, saved>>
placement == <<cs_slide, cs_shape, new_slide>>
images == <<orig_img, new_img>>

\* The runs a thread of the pool is executing
Running == {i \in Runs : pc[i] \notin {"queued", "done", "failed"}}

\* The runs that have ended, with a result or with an exception
Terminated == {i \in Runs : pc[i] \in {"done", "failed"}}

\* ------------------------------------------------------------------------
\* The coordinator: process_presentation
\* ------------------------------------------------------------------------
\* executor.submit(process_single_slide, ..., idx, slide) for the next slide
Submit ==
    /\ cpc = "with"
    /\ futures < Len(target)
    /\ futures' = futures + 1
    /\ UNCHANGED <<inputs, cpc, results, saved, output, lock, pc, content_type,
                   tried_layouts, layout_idx, attempts, quality_ok, feedback,
                   placement, images, future, compared>>

\* Variant of Collect: every iteration reads the first future.
Collect_first ==
    /\ cpc = "with"
    /\ futures = Len(target)
    /\ Len(results) < Len(target)
    /\ LET fut == future[1]
       IN  /\ fut.state # "pending"
           /\ IF fut.state = "finished"
              THEN /\ results' = Append(results, fut.result)
                   /\ cpc' = cpc
              ELSE /\ results' = results
                   /\ cpc' = "unwind"
    /\ UNCHANGED <<inputs, futures, saved, output, lock, pc, content_type,
                   tried_layouts, layout_idx, attempts, quality_ok, feedback,
                   placement, images, future, compared>>

\* Variant of Collect: a result with success = False is raised as an error.
Collect_raise ==
    /\ cpc = "with"
    /\ futures = Len(target)
    /\ Len(results) < Len(target)
    /\ LET fut == future[Len(results) + 1]
       IN  /\ fut.state # "pending"
           /\ IF fut.state = "finished" /\ fut.result.success
              THEN /\ results' = Append(results, fut.result)
                   /\ cpc' = cpc
              ELSE /\ results' = results
                   /\ cpc' = "unwind"
    /\ UNCHANGED <<inputs, futures, saved, output, lock, pc, content_type,
                   tried_layouts, layout_idx, attempts, quality_ok, feedback,
                   placement, images, future, compared>>

\* Variant of Collect: the future's result is taken without waiting for it.
Collect_nowait ==
    /\ cpc = "with"
    /\ futures = Len(target)
    /\ Len(results) < Len(target)
    /\ LET fut == future[Len(results) + 1]
       IN  IF fut.state # "exception"
           THEN /\ results' = Append(results, fut.result)
                /\ cpc' = cpc
           ELSE /\ results' = results
                /\ cpc' = "unwind"
    /\ UNCHANGED <<inputs, futures, saved, output, lock, pc, content_type,
                   tried_layouts, layout_idx, attempts, quality_ok, feedback,
                   placement, images, future, compared>>

\* Variant of Collect: the futures are read in the order they complete.
Collect_completed ==
    /\ cpc = "with"
    /\ futures = Len(target)
    /\ Len(results) < Len(target)
    /\ \E i \in Runs :
          /\ \A k \in 1..Len(results) : results[k].index # i
          /\ future[i].state # "pending"
          /\ IF future[i].state = "finished"
             THEN /\ results' = Append(results, future[i].result)
                  /\ cpc' = cpc
             ELSE /\ results' = results
                  /\ cpc' = "unwind"
    /\ UNCHANGED <<inputs, futures, saved, output, lock, pc, content_type,
                   tried_layouts, layout_idx, attempts, quality_ok, feedback,
                   placement, images, future, compared>>

\* results.append(fut.result()) for the next future, in submission order;
\* fut.result() raises what the run raised, which leaves the with block.
Collect ==
    /\ cpc = "with"
    /\ futures = Len(target)
    /\ Len(results) < Len(target)
    /\ LET fut == future[Len(results) + 1]
       IN  /\ fut.state # "pending"
           /\ IF fut.state = "finished"
              THEN /\ results' = Append(results, fut.result)
                   /\ cpc' = cpc
              ELSE /\ results' = results
                   /\ cpc' = "unwind"
    /\ UNCHANGED <<inputs, futures, saved, output, lock, pc, content_type,
                   tried_layouts, layout_idx, attempts, quality_ok, feedback,
                   placement, images, future, compared>>

\* Variant of ExitWith: the executor is shut down without waiting for the
\* runs that have not ended.
ExitWith_nowait ==
    /\ \/ /\ cpc = "with"
          /\ futures = Len(target)
          /\ Len(results) = Len(target)
          /\ cpc' = "save"
       \/ /\ cpc = "unwind"
          /\ cpc' = "raised"
    /\ UNCHANGED <<inputs, futures, results, saved, output, lock, pc, content_type,
                   tried_layouts, layout_idx, attempts, quality_ok, feedback,
                   placement, images, future, compared>>

\* The end of the with block: ThreadPoolExecutor.__exit__ is
\* shutdown(wait=True), which returns when every submitted run has ended.
ExitWith ==
    /\ \/ /\ cpc = "with"
          /\ futures = Len(target)
          /\ Len(results) = Len(target)
          /\ Terminated = Runs
          /\ cpc' = "save"
       \/ /\ cpc = "unwind"
          /\ Terminated = Runs
          /\ cpc' = "raised"
    /\ UNCHANGED <<inputs, futures, results, saved, output, lock, pc, content_type,
                   tried_layouts, layout_idx, attempts, quality_ok, feedback,
                   placement, images, future, compared>>

\* Variant of Save: the presentation is written once the runs are submitted,
\* before their results are collected.
Save_early ==
    /\ cpc = "with"
    /\ futures = Len(target)
    /\ saved = <<>>
    /\ saved' = <<output>>
    /\ cpc' = "returned"
    /\ UNCHANGED <<inputs, futures, results, output, lock, pc, content_type,
                   tried_layouts, layout_idx, attempts, quality_ok, feedback,
                   placement, images, future, compared>>

\* output.save(output_path); return results
Save ==
    /\ cpc = "save"
    /\ saved' = <<output>>
    /\ cpc' = "returned"
    /\ UNCHANGED <<inputs, futures, results, output, lock, pc, content_type,
                   tried_layouts, layout_idx, attempts, quality_ok, feedback,
                   placement, images, future, compared>>

\* ------------------------------------------------------------------------
\* One run: process_single_slide and the nodes of the graph
\* ------------------------------------------------------------------------
\* Variant of Start: a work item is started whether or not a thread is free.
Start_unbounded(i) ==
    /\ pc[i] = "queued"
    /\ i <= futures
    /\ pc' = [pc EXCEPT ![i] = "analyze"]
    /\ attempts' = [attempts EXCEPT ![i] = 0]
    /\ UNCHANGED <<inputs, coordinator, output, lock, content_type, tried_layouts,
                   layout_idx, quality_ok, feedback, placement, images, future,
                   compared>>

\* A free thread of the pool takes the oldest queued work item and calls
\* process_single_slide, which builds the state and invokes the graph.
Start(i) ==
    /\ pc[i] = "queued"
    /\ i <= futures
    /\ \A j \in 1..(i - 1) : pc[j] # "queued"
    /\ Cardinality(Running) < max_workers
    /\ pc' = [pc EXCEPT ![i] = "analyze"]
    /\ attempts' = [attempts EXCEPT ![i] = 0]
    /\ UNCHANGED <<inputs, coordinator, output, lock, content_type, tried_layouts,
                   layout_idx, quality_ok, feedback, placement, images, future,
                   compared>>

\* node "analyze"
Analyze(i) ==
    /\ pc[i] = "analyze"
    /\ LET r == AnalyzeSlide(target[i])
       IN  /\ content_type' = [content_type EXCEPT ![i] = r.content_type]
           /\ orig_img' = [orig_img EXCEPT ![i] = r.orig_img]
    /\ pc' = [pc EXCEPT ![i] = "select"]
    /\ UNCHANGED <<inputs, coordinator, output, lock, tried_layouts, layout_idx,
                   attempts, quality_ok, feedback, placement, new_img, future,
                   compared>>

\* node "select", then route_content
Select(i) ==
    /\ pc[i] = "select"
    /\ LET r == SelectTemplate(content_type[i], tried_layouts[i], Len(template))
       IN  /\ layout_idx' = [layout_idx EXCEPT ![i] = r.layout_idx]
           /\ tried_layouts' = [tried_layouts EXCEPT ![i] = r.tried]
    /\ pc' = [pc EXCEPT ![i] = RouteContent(content_type[i])]
    /\ UNCHANGED <<inputs, coordinator, output, lock, content_type, attempts,
                   quality_ok, feedback, placement, images, future, compared>>

\* Variant of Acquire: the critical section is entered without the lock
\* being free.
Acquire_nolock(i) ==
    /\ pc[i] \in PlaceNodes
    /\ lock' = i
    /\ pc' = [pc EXCEPT ![i] = "add_slide"]
    /\ UNCHANGED <<inputs, coordinator, output, content_type, tried_layouts,
                   layout_idx, attempts, quality_ok, feedback, placement, images,
                   future, compared>>

\* apply_layout (nodes "mechanical", "ai_place", "hybrid"): `with lock:`
Acquire(i) ==
    /\ pc[i] \in PlaceNodes
    /\ lock = 0
    /\ lock' = i
    /\ pc' = [pc EXCEPT ![i] = "add_slide"]
    /\ UNCHANGED <<inputs, coordinator, output, content_type, tried_layouts,
                   layout_idx, attempts, quality_ok, feedback, placement, images,
                   future, compared>>

\* Variant of NewSlide: a retry puts its new slide in the place of the slide
\* of the run's previous attempt.
NewSlide_replace(i) ==
    /\ pc[i] = "add_slide"
    /\ IF layout_idx[i] < Len(template)
       THEN /\ IF new_slide[i] # 0
               THEN /\ output' = [output EXCEPT ![new_slide[i]] = AddSlide(i, layout_idx[i])]
                    /\ cs_slide' = [cs_slide EXCEPT ![i] = new_slide[i]]
               ELSE /\ output' = Append(output, AddSlide(i, layout_idx[i]))
                    /\ cs_slide' = [cs_slide EXCEPT ![i] = Len(output) + 1]
            /\ cs_shape' = [cs_shape EXCEPT ![i] = 1]
            /\ pc' = [pc EXCEPT ![i] = "copy"]
            /\ UNCHANGED <<lock, future>>
       ELSE /\ lock' = 0
            /\ pc' = [pc EXCEPT ![i] = "failed"]
            /\ future' = [future EXCEPT ![i].state = "exception"]
            /\ UNCHANGED <<output, cs_slide, cs_shape>>
    /\ UNCHANGED <<inputs, coordinator, content_type, tried_layouts, layout_idx,
                   attempts, quality_ok, feedback, new_slide, images, compared>>

\* Variant of NewSlide: the IndexError leaves the lock held.
NewSlide_leak(i) ==
    /\ pc[i] = "add_slide"
    /\ IF layout_idx[i] < Len(template)
       THEN /\ output' = Append(output, AddSlide(i, layout_idx[i]))
            /\ cs_slide' = [cs_slide EXCEPT ![i] = Len(output) + 1]
            /\ cs_shape' = [cs_shape EXCEPT ![i] = 1]
            /\ pc' = [pc EXCEPT ![i] = "copy"]
            /\ UNCHANGED <<lock, future>>
       ELSE /\ pc' = [pc EXCEPT ![i] = "failed"]
            /\ future' = [future EXCEPT ![i].state = "exception"]
            /\ UNCHANGED <<lock, output, cs_slide, cs_shape>>
    /\ UNCHANGED <<inputs, coordinator, content_type, tried_layouts, layout_idx,
                   attempts, quality_ok, feedback, new_slide, images, compared>>

\* apply_layout: layout = template.slide_layouts[layout_idx] and
\* new_slide = output.slides.add_slide(layout). An index that is no layout
\* raises IndexError: the with statement releases the lock and the run ends
\* with the exception.
NewSlide(i) ==
    /\ pc[i] = "add_slide"
    /\ IF layout_idx[i] < Len(template)
       THEN /\ output' = Append(output, AddSlide(i, layout_idx[i]))
            /\ cs_slide' = [cs_slide EXCEPT ![i] = Len(output) + 1]
            /\ cs_shape' = [cs_shape EXCEPT ![i] = 1]
            /\ pc' = [pc EXCEPT ![i] = "copy"]
            /\ UNCHANGED <<lock, future>>
       ELSE /\ lock' = 0
            /\ pc' = [pc EXCEPT ![i] = "failed"]
            /\ future' = [future EXCEPT ![i].state = "exception"]
            /\ UNCHANGED <<output, cs_slide, cs_shape>>
    /\ UNCHANGED <<inputs, coordinator, content_type, tried_layouts, layout_idx,
                   attempts, quality_ok, feedback, new_slide, images, compared>>

\* apply_layout: one iteration of `for shape in slide.shapes`
CopyShape(i) ==
    /\ pc[i] = "copy"
    /\ cs_shape[i] <= Len(target[i])
    /\ LET shape == target[i][cs_shape[i]]
       IN  output' = IF shape.has_text_frame
                     THEN [output EXCEPT ![cs_slide[i]].shapes = Append(@, AddTextbox(shape))]
                     ELSE output
    /\ cs_shape' = [cs_shape EXCEPT ![i] = @ + 1]
    /\ UNCHANGED <<inputs, coordinator, lock, pc, content_type, tried_layouts,
                   layout_idx, attempts, quality_ok, feedback, cs_slide, new_slide,
                   images, future, compared>>

\* apply_layout: the loop is over, the with block releases the lock, and
\* state["new_slide"] = new_slide
Release(i) ==
    /\ pc[i] = "copy"
    /\ cs_shape[i] > Len(target[i])
    /\ lock' = 0
    /\ new_slide' = [new_slide EXCEPT ![i] = cs_slide[i]]
    /\ pc' = [pc EXCEPT ![i] = "render"]
    /\ UNCHANGED <<inputs, coordinator, output, content_type, tried_layouts,
                   layout_idx, attempts, quality_ok, feedback, cs_slide, cs_shape,
                   images, future, compared>>

\* node "render"
Render(i) ==
    /\ pc[i] = "render"
    /\ new_img' = [new_img EXCEPT ![i] = RenderNewSlide(output[new_slide[i]].shapes)]
    /\ pc' = [pc EXCEPT ![i] = "compare"]
    /\ UNCHANGED <<inputs, coordinator, output, lock, content_type, tried_layouts,
                   layout_idx, attempts, quality_ok, feedback, placement, orig_img,
                   future, compared>>

\* node "compare", then route_quality
Compare(i) ==
    /\ pc[i] = "compare"
    /\ LET ok == CompareImages(orig_img[i], new_img[i])
       IN  /\ quality_ok' = [quality_ok EXCEPT ![i] = ok]
           /\ compared' = [compared EXCEPT ![i] =
                             Append(@, [layout |-> layout_idx[i], ok |-> ok])]
           /\ pc' = [pc EXCEPT ![i] = RouteQuality(ok)]
    /\ UNCHANGED <<inputs, coordinator, output, lock, content_type, tried_layouts,
                   layout_idx, attempts, feedback, placement, images, future>>

\* Variant of Feedback: the counter is advanced by 2.
Feedback_double(i) ==
    /\ pc[i] = "feedback"
    /\ feedback' = [feedback EXCEPT ![i] = FeedbackMessage(i, layout_idx[i])]
    /\ attempts' = [attempts EXCEPT ![i] = @ + 2]
    /\ pc' = [pc EXCEPT ![i] = RouteFeedback(attempts'[i])]
    /\ UNCHANGED <<inputs, coordinator, output, lock, content_type, tried_layouts,
                   layout_idx, quality_ok, placement, images, future, compared>>

\* node "feedback", then route_feedback
Feedback(i) ==
    /\ pc[i] = "feedback"
    /\ feedback' = [feedback EXCEPT ![i] = FeedbackMessage(i, layout_idx[i])]
    /\ attempts' = [attempts EXCEPT ![i] = @ + 1]
    /\ pc' = [pc EXCEPT ![i] = RouteFeedback(attempts'[i])]
    /\ UNCHANGED <<inputs, coordinator, output, lock, content_type, tried_layouts,
                   layout_idx, quality_ok, placement, images, future, compared>>

\* END: graph.invoke returns and process_single_slide returns
\* mark_result(final_state), which becomes the result of the future.
Done(i) ==
    /\ pc[i] = "end"
    /\ future' = [future EXCEPT ![i] =
                    [state |-> "finished",
                     result |-> MarkResult(i, quality_ok[i], feedback[i])]]
    /\ pc' = [pc EXCEPT ![i] = "done"]
    /\ UNCHANGED <<inputs, coordinator, output, lock, content_type, tried_layouts,
                   layout_idx, attempts, quality_ok, feedback, placement, images,
                   compared>>

Next ==
    \/ Submit
    \/ Collect
    \/ ExitWith
    \/ Save
    \/ \E i \in Runs : Start(i)
    \/ \E i \in Runs : Analyze(i)
    \/ \E i \in Runs : Select(i)
    \/ \E i \in Runs : Acquire(i)
    \/ \E i \in Runs : NewSlide(i)
    \/ \E i \in Runs : CopyShape(i)
    \/ \E i \in Runs : Release(i)
    \/ \E i \in Runs : Render(i)
    \/ \E i \in Runs : Compare(i)
    \/ \E i \in Runs : Feedback(i)
    \/ \E i \in Runs : Done(i)

Spec == Init /\ [][Next]_vars

\* Scheduling: the thread of process_presentation and the thread of every
\* run each take their next step when it stays possible. A run that waits
\* for the lock is given no more than that: threading.Lock hands the lock
\* to any of the waiting threads.
CoordinatorStep == Submit \/ Collect \/ ExitWith \/ Save

RunStep(i) ==
    /\ i \in Runs
    /\ \/ Start(i) \/ Analyze(i) \/ Select(i) \/ Acquire(i) \/ NewSlide(i)
       \/ CopyShape(i) \/ Release(i) \/ Render(i) \/ Compare(i) \/ Feedback(i)
       \/ Done(i)

Fairness == WF_vars(CoordinatorStep) /\ \A i \in 1..MaxItems : WF_vars(RunStep(i))

SpecFair == Spec /\ Fairness

\* ========================================================================
\* Properties
\* ========================================================================
\* Every comparison run i has made so far failed
AllFailed(i) == \A k \in 1..Len(compared[i]) : ~compared[i][k].ok

\* The run has left the graph (END reached, result not yet or already built)
Ended(i) == pc[i] \in {"end", "done"}

\* No run has raised an exception
NoFatalError == \A i \in Runs : future[i].state # "exception"

\* The runs inside the critical section of apply_layout
InCriticalSection == {i \in Runs : pc[i] \in {"add_slide", "copy"}}

\* The positions of output that a step writes: appended or changed
Written == {k \in 1..Len(output') : k > Len(output) \/ output'[k] # output[k]}

\* ---- C1 ----------------------------------------------------------------
\* C1: a run whose comparisons all fail makes exactly MaxAttempts (3) of
\* them: never a fourth, it does not end before the third, after the third
\* only feedback and the end remain, and its result has success = FALSE.
RetryBound ==
    \A i \in Runs :
        AllFailed(i) =>
            /\ Len(compared[i]) <= MaxAttempts
            /\ (Ended(i) => Len(compared[i]) = MaxAttempts)
            /\ (Len(compared[i]) = MaxAttempts => pc[i] \in {"feedback", "end", "done"})
            /\ (pc[i] = "done" => /\ future[i].state = "finished"
                                  /\ future[i].result.success = FALSE)

\* A run has ended after three failed comparisons
RetryBoundWitness ==
    \E i \in Runs :
        /\ pc[i] = "done"
        /\ Len(template) >= 1
        /\ Len(compared[i]) = MaxAttempts
        /\ AllFailed(i)

\* ---- C2 ----------------------------------------------------------------
\* C2: when the job has finished, the saved output presentation holds
\* exactly one slide for each slide of the target presentation.
OneItemPerSource ==
    cpc = "returned" =>
        /\ Len(saved[1]) = Len(target)
        /\ \A i \in Runs : Cardinality({k \in 1..Len(saved[1]) : saved[1][k].owner = i}) = 1

\* ---- C3 ----------------------------------------------------------------
\* C3: at most one run is inside the critical section of apply_layout, it
\* is the holder of the lock, and while a run is between appending its new
\* slide and adding the last text box, every write to the output
\* presentation is a write of that run to its own new slide.
AtMostOneInCriticalSection ==
    /\ Cardinality(InCriticalSection) <= 1
    /\ \A i \in InCriticalSection : lock = i

NoForeignWrite ==
    \A j \in Runs :
        pc[j] = "copy" => \A k \in Written : k = cs_slide[j] /\ output'[k].owner = j

MutualExclusion == []AtMostOneInCriticalSection /\ [][NoForeignWrite]_vars

\* A run is copying shapes into its new slide while another run waits for
\* the lock in a placement node
MutualExclusionWitness ==
    \E i, j \in Runs :
        /\ i # j
        /\ pc[i] = "copy"
        /\ cs_shape[i] <= Len(target[i])
        /\ pc[j] \in PlaceNodes
        /\ lock = i

\* ---- C4 ----------------------------------------------------------------
\* C4: when no run raised, process_presentation returns exactly one result
\* for each slide index 1..K: K results, no index twice, none missing.
ExactlyOneResult ==
    (cpc \in {"save", "returned"} /\ NoFatalError) =>
        /\ Len(results) = Len(target)
        /\ \A i \in Runs : Cardinality({k \in 1..Len(results) : results[k].index = i}) = 1

\* Two runs were executed by two threads and both results were returned
ExactlyOneResultWitness ==
    /\ cpc = "returned"
    /\ Len(target) = 2
    /\ max_workers = 2
    /\ Len(results) = 2

\* ---- C5 ----------------------------------------------------------------
\* C5: with N >= 1 layouts, a call of select_template that follows N or more
\* earlier calls of the run finds all N layouts tried, sets layout 0, leaves
\* tried_layouts as it is and goes on to a placement node.
ExhaustedSelectStep ==
    \A i \in Runs :
        (/\ pc[i] = "select"
         /\ pc'[i] # "select"
         /\ Len(template) >= 1
         /\ Len(compared[i]) >= Len(template))
        => /\ tried_layouts[i] = 0..(Len(template) - 1)
           /\ layout_idx'[i] = 0
           /\ tried_layouts'[i] = tried_layouts[i]
           /\ pc'[i] \in PlaceNodes

ExhaustionSafety == [][ExhaustedSelectStep]_vars

\* With two layouts, the third selection of a run whose preferred layout is
\* 1 has been made: layout 0
ExhaustionSafetyWitness ==
    \E i \in Runs :
        /\ Len(template) = 2
        /\ content_type[i] = "image"
        /\ Len(compared[i]) = 2
        /\ pc[i] \in PlaceNodes
        /\ layout_idx[i] = 0
        /\ tried_layouts[i] = {0, 1}

\* ---- C6 ----------------------------------------------------------------
\* The slide has a picture; the number of its shapes that carry text
HasMedia(slide) == \E j \in 1..Len(slide) : slide[j].shape_type = PICTURE
TextShapeCount(slide) == Cardinality({j \in 1..Len(slide) : slide[j].has_text_frame})

ResultDerivation ==
    \A i \in Runs :
        pc[i] = "done" =>
            LET last == compared[i][Len(compared[i])]
                res == future[i].result
            IN  /\ future[i].state = "finished"
                /\ Len(compared[i]) >= 1
                /\ res.index = i
                /\ res.success = last.ok
                /\ (res.success => res.feedback = NoFeedback)
                /\ (~res.success => res.feedback = <<i, last.layout>>)

\* A run succeeded after a failed attempt had recorded feedback
ResultDerivationWitness ==
    \E i \in Runs :
        /\ pc[i] = "done"
        /\ future[i].result.success
        /\ Len(compared[i]) >= 2
        /\ feedback[i] # NoFeedback

\* ---- C8 ----------------------------------------------------------------
\* C8: results with success = FALSE never make the coordinator leave by an
\* exception, and as long as no run has raised, the job is never stuck
\* before its save: either it has saved and returned or some step of a run
\* or of the coordinator can be taken.
FailureIsolation ==
    NoFatalError =>
        /\ cpc \notin {"unwind", "raised"}
        /\ (cpc = "returned" \/ ENABLED Next)
        /\ (cpc = "returned" => saved # <<>> /\ \A i \in Runs : pc[i] = "done")

\* The job has saved and returned a failed result and a successful one
FailureIsolationWitness ==
    /\ cpc = "returned"
    /\ saved # <<>>
    /\ \E k \in 1..Len(results) : ~results[k].success /\ Len(compared[results[k].index]) = MaxAttempts
    /\ \E k \in 1..Len(results) : results[k].success

\* ---- C9 ----------------------------------------------------------------
\* C9: with two layouts, a run whose comparisons all fail ends after three
\* attempts: the first two on the layouts 0 and 1 (one each), the third on
\* layout 0, no fourth; its result has success = FALSE and the feedback
\* message of layout 0, and attempts is 3.
ScenarioC ==
    \A i \in Runs :
        (Len(template) = 2 /\ AllFailed(i)) =>
            /\ Len(compared[i]) <= 3
            /\ (Ended(i) =>
                  /\ Len(compared[i]) = 3
                  /\ {compared[i][1].layout, compared[i][2].layout} = {0, 1}
                  /\ compared[i][3].layout = 0
                  /\ attempts[i] = 3
                  /\ feedback[i] = <<i, 0>>)
            /\ (pc[i] = "done" =>
                  future[i].result = [index |-> i, success |-> FALSE, feedback |-> <<i, 0>>])

\* With two layouts, a run has ended after three failed comparisons
ScenarioCWitness ==
    \E i \in Runs :
        /\ Len(template) = 2
        /\ pc[i] = "done"
        /\ AllFailed(i)
        /\ Len(compared[i]) = 3
        /\ attempts[i] = 3

\* ---- C10 ---------------------------------------------------------------
\* C10: the output presentation is saved only when every run has reached
\* its end, and what was saved is the output presentation ever after: no
\* run writes to it after the save.
SaveAfterAllRuns ==
    /\ cpc = "save" => \A i \in Runs : pc[i] = "done"
    /\ saved # <<>> =>
          /\ \A i \in Runs : pc[i] = "done"
          /\ saved[1] = output

\* A presentation of two slides has been saved
SaveAfterAllRunsWitness ==
    /\ saved # <<>>
    /\ Len(target) = 2
    /\ Len(saved[1]) >= 2

\* ---- C11 ---------------------------------------------------------------
\* The points of a run inside apply_layout, the Place step of the graph
InPlace(p) == p \in PlaceNodes \cup {"add_slide", "copy"}

\* The node of the graph a position of a run belongs to
NodeOf(p) == IF InPlace(p) THEN "place" ELSE p

\* C11: a run moves only along the edges of the workflow graph: it starts
\* in analyze, analyze -> select -> place (the node of its category) ->
\* render -> compare; from compare to the end exactly when quality_ok, else
\* to feedback; from feedback to select exactly when attempts < 3, else to
\* the end; the end is left only to hand over the result, and done (like a
\* failed run) is left no more.
GraphStep ==
    \A i \in Runs :
        pc'[i] # pc[i] =>
            CASE pc[i] = "queued"   -> pc'[i] = "analyze"
              [] pc[i] = "analyze"  -> pc'[i] = "select"
              [] pc[i] = "select"   ->
                    pc'[i] = (CASE content_type[i] = "text" -> "mechanical"
                                [] content_type[i] = "image" -> "ai_place"
                                [] content_type[i] = "complex" -> "hybrid")
              [] InPlace(pc[i])     ->
                    \/ NodeOf(pc'[i]) = "place"
                    \/ pc'[i] = "render"
                    \/ pc'[i] = "failed" /\ Len(template) = 0
              [] pc[i] = "render"   -> pc'[i] = "compare"
              [] pc[i] = "compare"  -> pc'[i] = IF quality_ok'[i] THEN "end" ELSE "feedback"
              [] pc[i] = "feedback" -> pc'[i] = IF attempts'[i] < 3 THEN "select" ELSE "end"
              [] pc[i] = "end"      -> pc'[i] = "done"
              [] OTHER              -> FALSE

WorkflowGraph == [][GraphStep]_vars

\* A run went compare -> feedback -> select and then reached the end from
\* compare, and has handed over its result
WorkflowGraphWitness ==
    \E i \in Runs :
        /\ pc[i] = "done"
        /\ Len(compared[i]) = 2
        /\ ~compared[i][1].ok
        /\ compared[i][2].ok

\* ---- C12 ---------------------------------------------------------------
\* The failed comparisons run i has made so far
FailedCount(i) == Cardinality({k \in 1..Len(compared[i]) : ~compared[i][k].ok})

\* C12 as stated: in every state attempts is the number of failed
\* comparisons made so far, and lies in 0..3.
AttemptsEqualsFailures ==
    \A i \in Runs : attempts[i] = FailedCount(i) /\ attempts[i] \in 0..MaxAttempts

\* C12, amended: attempts lies in 0..3 and is the number of failed
\* comparisons made so far, less the one whose feedback node is still to
\* run; it changes in the feedback node alone, which adds exactly 1.
AttemptsInvariant ==
    \A i \in Runs :
        /\ attempts[i] \in 0..MaxAttempts
        /\ attempts[i] = FailedCount(i) - (IF pc[i] = "feedback" THEN 1 ELSE 0)

AttemptsStep ==
    \A i \in Runs :
        /\ (attempts'[i] # attempts[i] => pc[i] = "feedback")
        /\ (pc[i] = "feedback" /\ pc'[i] # "feedback" => attempts'[i] = attempts[i] + 1)

AttemptsCount == []AttemptsInvariant /\ [][AttemptsStep]_vars

\* A run has failed a comparison for the second time and its feedback node
\* has not run yet
AttemptsCountWitness ==
    \E i \in Runs :
        /\ pc[i] = "feedback"
        /\ FailedCount(i) = 2
        /\ attempts[i] = 1

\* ---- C13 ---------------------------------------------------------------
\* The layouts run i has selected so far, in the order of selection: those
\* of its comparisons, then the one of the attempt under way
Selections(i) ==
    [k \in 1..Len(compared[i]) |-> compared[i][k].layout]
    \o (IF InPlace(pc[i]) \/ pc[i] \in {"render", "compare"}
        THEN <<layout_idx[i]>> ELSE <<>>)

\* The preferred layout index of a category, as the claim gives it
PreferredIndex(c) == IF c = "text" THEN 0 ELSE IF c = "image" THEN 1 ELSE 2

\* C13: with N >= 1 layouts, the j-th selection of a run, j <= N, is
\* (preferred + j - 1) mod N with preferred 0 for text, 1 for image, 2 for
\* complex; tried_layouts is the set of these selections; the selections of
\* the first min(N, 3) attempts are pairwise distinct.
SelectionOrder ==
    \A i \in Runs :
        Len(template) >= 1 =>
            LET sel  == Selections(i)
                n    == Len(template)
                m    == IF Len(sel) < n THEN Len(sel) ELSE n
            IN  /\ \A j \in 1..m : sel[j] = (PreferredIndex(content_type[i]) + j - 1) % n
                /\ tried_layouts[i] = {sel[j] : j \in 1..m}
                /\ \A j, k \in 1..m : j # k => sel[j] # sel[k]

\* With three layouts, a slide with a picture has been through three
\* attempts, on the layouts 1, 2 and 0
SelectionOrderWitness ==
    \E i \in Runs :
        /\ Len(template) = 3
        /\ content_type[i] = "image"
        /\ Len(compared[i]) = 3
        /\ compared[i][1].layout = 1
        /\ compared[i][2].layout = 2
        /\ compared[i][3].layout = 0

\* ---- C14 ---------------------------------------------------------------
\* The indices of the layouts of the template
LayoutIndices == 0..(Len(template) - 1)

\* C14: tried_layouts is a set of layout indices and only grows; with
\* N >= 1 layouts, the layout index apply_layout works with is a layout
\* index, whatever the category and after exhaustion too, so that no run
\* fails in apply_layout and every slide of the output presentation was
\* made from a layout of the template.
ValidLayoutState ==
    \A i \in Runs :
        /\ tried_layouts[i] \subseteq LayoutIndices
        /\ Len(template) >= 1 =>
              /\ pc[i] # "failed"
              /\ (InPlace(pc[i]) => layout_idx[i] \in LayoutIndices)
              /\ \A k \in 1..Len(output) : output[k].layout \in LayoutIndices

TriedGrows == \A i \in Runs : tried_layouts[i] \subseteq tried_layouts'[i]

ValidLayout == []ValidLayoutState /\ [][TriedGrows]_vars

\* With one layout, a slide of category complex (preferred index 2) is in
\* apply_layout again after its layouts were exhausted
ValidLayoutWitness ==
    \E i \in Runs :
        /\ Len(template) = 1
        /\ content_type[i] = "complex"
        /\ Len(compared[i]) = 2
        /\ pc[i] = "copy"
        /\ layout_idx[i] = 0
        /\ tried_layouts[i] = {0}

\* ---- C15 ---------------------------------------------------------------
\* The shapes of a slide that carry text, in the order of the slide
CarriesText(sh) == sh.has_text_frame
TextShapes(slide) == SelectSeq(slide, CarriesText)

\* b is a text shape with the geometry and the text of a
IsCopyOf(b, a) ==
    /\ b.has_text_frame
    /\ b.text = a.text
    /\ b.left = a.left /\ b.top = a.top
    /\ b.width = a.width /\ b.height = a.height

\* C15 as stated: after apply_layout the shapes of the new slide are
\* exactly the copies of the text shapes of the source slide, in order.
ExactCopies ==
    \A i \in Runs :
        new_slide[i] # 0 =>
            LET made == output[new_slide[i]].shapes
                src  == TextShapes(target[i])
            IN  /\ Len(made) = Len(src)
                /\ \A k \in 1..Len(src) : IsCopyOf(made[k], src[k])

\* C15, amended: after apply_layout the new slide holds the placeholders of
\* its layout, with empty text, followed by exactly the copies of the text
\* shapes of the source slide, one each, in source order, with the same
\* geometry and text, and no copy of a shape without text; a source slide
\* without text shapes gives a slide of the layout's placeholders alone.
CopiesAfterPlaceholders ==
    \A i \in Runs :
        new_slide[i] # 0 =>
            LET slide == output[new_slide[i]]
                made  == slide.shapes
                src   == TextShapes(target[i])
                ph    == template[slide.layout + 1]
            IN  /\ slide.owner = i
                /\ Len(made) = ph + Len(src)
                /\ \A k \in 1..ph : made[k].has_text_frame /\ made[k].text = ""
                /\ \A k \in 1..Len(src) : IsCopyOf(made[ph + k], src[k])

\* A slide with a picture and two text shapes was placed on a layout with a
\* placeholder and is about to be rendered
CopiesAfterPlaceholdersWitness ==
    \E i \in Runs :
        /\ pc[i] = "render"
        /\ Len(target[i]) = 3
        /\ HasMedia(target[i])
        /\ TextShapeCount(target[i]) = 2
        /\ template[layout_idx[i] + 1] = 1

\* ---- C16 ---------------------------------------------------------------
\* Some slide of a later source slide precedes one of an earlier source
\* slide in the sequence of slides
OutOfSourceOrder(slides) ==
    \E a, b \in 1..Len(slides) : a < b /\ slides[a].owner > slides[b].owner

\* C16: the order of the slides appended to the output presentation can
\* differ from the source order, and does so by the scheduling of the runs
\* alone: only with at least 2 source slides run by at least 2 threads;
\* neither the lock nor the coordinator puts them back in order, the
\* presentation is saved in the order of the appends.
AppendOrderByScheduling ==
    /\ OutOfSourceOrder(output) => Len(target) >= 2 /\ max_workers >= 2
    /\ saved # <<>> => (OutOfSourceOrder(saved[1]) <=> OutOfSourceOrder(output))

\* A job of two slides has returned and the slide of source slide 2 was
\* saved before the slide of source slide 1
AppendOrderBySchedulingWitness ==
    /\ cpc = "returned"
    /\ Len(target) = 2
    /\ max_workers = 2
    /\ Len(saved[1]) >= 2
    /\ saved[1][1].owner = 2
    /\ OutOfSourceOrder(saved[1])

\* ---- C17 ---------------------------------------------------------------
\* C17: an exception raised inside a run leaves process_presentation only
\* when every submitted run has ended, with a result or with an exception:
\* while the error is on its way out of the with block, and once it is out,
\* no run is queued or executing a step that the coordinator did not wait
\* for, and nothing is saved.
ErrorAfterAllRuns ==
    /\ cpc = "raised" =>
          /\ \A i \in Runs : pc[i] \in {"done", "failed"}
          /\ \E i \in Runs : future[i].state = "exception"
          /\ saved = <<>>
    /\ cpc = "unwind" => \E i \in Runs : future[i].state = "exception"

\* The error of a job of two slides run by two threads has been raised to
\* the caller
ErrorAfterAllRunsWitness ==
    /\ cpc = "raised"
    /\ Len(target) = 2
    /\ max_workers = 2
    /\ \A i \in Runs : pc[i] = "failed"

\* ---- C18 ---------------------------------------------------------------
\* C18: the list of results is in ascending source index order at every
\* moment: its k-th entry is the result of slide k, whatever the order in
\* which the runs ended and appended their slides.
ResultsInIndexOrder == \A k \in 1..Len(results) : results[k].index = k

\* Both results of a job were returned although run 2 had appended the
\* first slide of the output presentation
ResultsInIndexOrderWitness ==
    /\ cpc = "returned"
    /\ Len(results) = 2
    /\ Len(output) >= 2
    /\ output[1].owner = 2

\* ---- C19 ---------------------------------------------------------------
\* The slides of the output presentation made by run i
OwnedCount(i) == Cardinality({k \in 1..Len(output) : output[k].owner = i})

\* The Place steps of run i that have added their slide: one for each
\* comparison made, and the one of the attempt under way
PlacedCount(i) ==
    Len(compared[i]) + (IF pc[i] \in {"copy", "render", "compare"} THEN 1 ELSE 0)

\* s is an initial part of t
IsPrefix(s, t) == Len(s) <= Len(t) /\ \A k \in 1..Len(s) : s[k] = t[k]

\* C19: every slide of the output presentation was added by a Place step
\* and every Place step added one; a run that has ended has left
\* attempts + (1 if success else 0) slides, from 1 to 3; and a step never
\* takes a slide away or puts another in its place: it adds at most one
\* slide at the end, and a slide keeps its layout and the shapes it has.
OutputCount ==
    /\ \A k \in 1..Len(output) : output[k].owner \in Runs
    /\ \A i \in Runs :
          /\ OwnedCount(i) = PlacedCount(i)
          /\ pc[i] = "done" =>
                /\ OwnedCount(i) = attempts[i] + (IF future[i].result.success THEN 1 ELSE 0)
                /\ OwnedCount(i) \in 1..MaxAttempts

AppendOnlyStep ==
    /\ Len(output') \in {Len(output), Len(output) + 1}
    /\ \A k \in 1..Len(output) :
          /\ output'[k].owner = output[k].owner
          /\ output'[k].layout = output[k].layout
          /\ IsPrefix(output[k].shapes, output'[k].shapes)

AppendOnlyOutput == []OutputCount /\ [][AppendOnlyStep]_vars

\* A job of one slide has returned with success = FALSE and the three slides
\* of its three attempts are in the saved presentation
AppendOnlyOutputWitness ==
    /\ cpc = "returned"
    /\ Len(target) = 1
    /\ ~results[1].success
    /\ attempts[1] = 3
    /\ Len(saved[1]) = 3

\* ---- C20 ---------------------------------------------------------------
\* C20: the lock is held exactly while a run is inside the with block of
\* apply_layout, by that run: it is free when no run is there, also after a
\* run has failed inside the block, and a run that waits for the lock does
\* not hold it; and with every thread scheduled fairly, a run that waits
\* for the lock comes to hold it.
LockState ==
    /\ lock \in Runs \cup {0}
    /\ \A i \in Runs : (lock = i) <=> (pc[i] \in {"add_slide", "copy"})

LockAcquired ==
    \A i \in 1..MaxItems :
        (i \in Runs /\ pc[i] \in PlaceNodes) ~> (i \in Runs /\ pc[i] = "add_slide" /\ lock = i)

LockDiscipline == []LockState /\ LockAcquired

\* A run has failed inside the with block and another run holds the lock
\* after it
LockDisciplineWitness ==
    \E i, j \in Runs :
        /\ pc[i] = "failed"
        /\ future[i].state = "exception"
        /\ pc[j] = "add_slide"
        /\ lock = j

====
